---- MODULE Spec2Model ----
(***************************************************************************)
(* Release version model and support-window queries of the releases app   *)
(* (src/releases/models.py): version parsing, Release.save with its EOL    *)
(* cascade and cache invalidation, and the ReleaseManager queries.         *)
(*                                                                         *)
(* Strings are sequences of one-character strings, so that parsing is a    *)
(* computation on characters.  Dates are positive integers (days); a NULL  *)
(* date is None.                                                           *)
(***************************************************************************)
EXTENDS Integers, Sequences, FiniteSets, TLC

VARIABLES
    releases,   \* the Release table: a set of rows, at most one per version
    cache,      \* the RELEASE_DEFAULT_CACHE_KEY entry: <<>> absent, <<s>> holding s
    today,      \* datetime.date.today()
    objs,       \* in-memory Release instances by variable: <<>> unbound, <<obj>>
    res,        \* what the last manager call returned (NoRes when none)
    calls,      \* the call each process is in the middle of (Idle when in none)
    issues,     \* the SecurityIssue table: a set of rows, one per cve_year_number
    links       \* the SecurityIssueReleasesThrough table: a set of rows

vars == <<releases, cache, today, objs, res, calls, issues, links>>

(***************************************************************************)
(* Bounds of the model.                                                    *)
(***************************************************************************)
MaxDate == 2        \* dates range over 1..MaxDate
MaxRows == 2        \* datasets the queries are evaluated on hold up to MaxRows rows
MaxSaved == 2       \* the save runs keep up to MaxSaved rows in the table
MaxLinks == 3       \* the through table holds up to MaxLinks rows
MaxVersionLen == 6  \* the parser runs take version strings of up to MaxVersionLen characters

\* NULL of a nullable DateField.
None == 0

Dates == 1..MaxDate
DateOrNone == {None} \cup Dates

(***************************************************************************)
(* Characters and strings.                                                 *)
(***************************************************************************)
Digits == {"0", "1", "2", "3", "4", "5", "6", "7", "8", "9"}
Lower == {"a", "b", "c", "d", "e", "f", "g", "h", "i", "j", "k", "l", "m",
          "n", "o", "p", "q", "r", "s", "t", "u", "v", "w", "x", "y", "z"}

DigitVal(c) ==
    CASE c = "0" -> 0 [] c = "1" -> 1 [] c = "2" -> 2 [] c = "3" -> 3
      [] c = "4" -> 4 [] c = "5" -> 5 [] c = "6" -> 6 [] c = "7" -> 7
      [] c = "8" -> 8 [] c = "9" -> 9

\* int(item) of a run of digits.
RECURSIVE ToInt(_)
ToInt(s) ==
    IF s = <<>> THEN 0
    ELSE 10 * ToInt(SubSeq(s, 1, Len(s) - 1)) + DigitVal(s[Len(s)])

\* str(n) of a natural number.
RECURSIVE ToStr(_)
ToStr(n) ==
    IF n < 10 THEN <<CHOOSE c \in Digits : DigitVal(c) = n>>
    ELSE ToStr(n \div 10) \o <<CHOOSE c \in Digits : DigitVal(c) = n % 10>>

\* The place of a character in the order strings are compared by: the dot,
\* the digits, the letters.
CharRank(c) ==
    IF c = "." THEN 0
    ELSE IF c \in Digits THEN 1 + DigitVal(c)
    ELSE 11 + (CHOOSE i \in 1..26 :
                  <<"a", "b", "c", "d", "e", "f", "g", "h", "i", "j", "k", "l", "m",
                    "n", "o", "p", "q", "r", "s", "t", "u", "v", "w", "x", "y",
                    "z">>[i] = c)

\* a > b for strings, character by character.
RECURSIVE StrGT(_, _)
StrGT(a, b) ==
    IF a = <<>> THEN FALSE
    ELSE IF b = <<>> THEN TRUE
    ELSE \/ CharRank(Head(a)) > CharRank(Head(b))
         \/ CharRank(Head(a)) = CharRank(Head(b)) /\ StrGT(Tail(a), Tail(b))

\* str.replace(ch, ""): the string without the character ch.
RECURSIVE Remove(_, _)
Remove(s, ch) ==
    IF s = <<>> THEN <<>>
    ELSE IF Head(s) = ch THEN Remove(Tail(s), ch)
    ELSE <<Head(s)>> \o Remove(Tail(s), ch)

\* The character class the tokenizer's regular expression puts c in.
CharClass(c) ==
    IF c \in Digits THEN "digit"
    ELSE IF c \in Lower THEN "lower"
    ELSE IF c = "." THEN "dot"
    ELSE "other"

\* The index after the maximal run of characters of class cls starting at i.
RECURSIVE RunEnd(_, _, _)
RunEnd(s, i, cls) ==
    IF i > Len(s) \/ CharClass(s[i]) # cls THEN i ELSE RunEnd(s, i + 1, cls)

\* A component of a loose version tuple: an int or a str.
IntItem(n) == [isint |-> TRUE, n |-> n, s |-> <<>>]
StrItem(s) == [isint |-> FALSE, n |-> 0, s |-> s]

(***************************************************************************)
(* get_loose_version_tuple (releases/utils.py): the string split into its  *)
(* numeric and alphabetic runs, dots dropped, numeric runs as ints.        *)
(***************************************************************************)
RECURSIVE LooseFrom(_, _)
LooseFrom(s, i) ==
    IF i > Len(s) THEN <<>>
    ELSE LET cls == CharClass(s[i])
             j == RunEnd(s, i, cls)
         IN  IF cls = "dot" THEN LooseFrom(s, i + 1)
             ELSE IF cls = "digit"
                  THEN <<IntItem(ToInt(SubSeq(s, i, j - 1)))>> \o LooseFrom(s, j)
                  ELSE <<StrItem(SubSeq(s, i, j - 1))>> \o LooseFrom(s, j)

get_loose_version_tuple(version) == LooseFrom(version, 1)

S_alpha == <<"a", "l", "p", "h", "a">>
S_beta == <<"b", "e", "t", "a">>
S_rc == <<"r", "c">>
S_final == <<"f", "i", "n", "a", "l">>
KindNames == {S_alpha, S_beta, S_rc, S_final}

\* {"a": "alpha", "b": "beta", "c": "rc"}
KindAbbrev(s) ==
    CASE s = <<"a">> -> S_alpha
      [] s = <<"b">> -> S_beta
      [] s = <<"c">> -> S_rc

\* list.insert(i, x), 1-based here.
InsertAt(seq, i, x) == SubSeq(seq, 1, i - 1) \o <<x>> \o SubSeq(seq, i, Len(seq))

Failed == [ok |-> FALSE, t |-> <<>>]
Done(t) == [ok |-> TRUE, t |-> t]

(***************************************************************************)
(* Release.version_tuple, computed from a version string: the normalised   *)
(* list, or Failed where the Python raises (IndexError, KeyError).  Each    *)
(* operator is one statement of the property.                              *)
(***************************************************************************)
\* if len(version) == 2: version.append(0)
AppendMicro(v) == IF Len(v) = 2 THEN Append(v, IntItem(0)) ELSE v

\* if not isinstance(version[2], int): version.insert(2, 0)
InsertMicro(v) == IF ~v[3].isint THEN InsertAt(v, 3, IntItem(0)) ELSE v

\* if len(version) == 3: version.append("final")
AppendFinal(v) == IF Len(v) = 3 THEN Append(v, StrItem(S_final)) ELSE v

\* if len(version) == 4: version.append(0)
AppendIteration(v) == Done(IF Len(v) = 4 THEN Append(v, IntItem(0)) ELSE v)

\* The kind defaulting to "final" where the mapping has no such key.
ExpandKind_defaulting_to_final(v) ==
    IF ~v[4].isint /\ v[4].s \in KindNames THEN AppendIteration(v)
    ELSE IF ~v[4].isint /\ v[4].s \in {<<"a">>, <<"b">>, <<"c">>}
    THEN AppendIteration([v EXCEPT ![4] = StrItem(KindAbbrev(v[4].s))])
    ELSE AppendIteration([v EXCEPT ![4] = StrItem(S_final)])

\* if version[3] not in (...): version[3] = {...}[version[3]], and what follows.
ExpandKind(v) ==
    IF ~v[4].isint /\ v[4].s \in KindNames THEN AppendIteration(v)
    ELSE IF ~v[4].isint /\ v[4].s \in {<<"a">>, <<"b">>, <<"c">>}
    THEN AppendIteration([v EXCEPT ![4] = StrItem(KindAbbrev(v[4].s))])
    ELSE Failed

\* version[2] of a list shorter than 3 raises IndexError.
Normalise(v) ==
    IF Len(v) < 3 THEN Failed ELSE ExpandKind(AppendFinal(InsertMicro(v)))

version_tuple(version) ==
    Normalise(AppendMicro(get_loose_version_tuple(Remove(Remove(version, "-"), "_"))))

(***************************************************************************)
(* get_version: the version string of a version tuple, or Failed where an  *)
(* assertion of get_complete_version or the mapping raises.                *)
(***************************************************************************)
\* str(x) of a component.
ItemStr(x) == IF x.isint THEN ToStr(x.n) ELSE x.s

\* get_main_version: X.Y when the micro is 0, X.Y.Z otherwise.
get_main_version(t) ==
    IF t[3].isint /\ t[3].n = 0
    THEN ItemStr(t[1]) \o <<".">> \o ItemStr(t[2])
    ELSE ItemStr(t[1]) \o <<".">> \o ItemStr(t[2]) \o <<".">> \o ItemStr(t[3])

\* mapping = {"alpha": "a", "beta": "b", "rc": "rc"}
KindSuffix(kind) ==
    CASE kind = S_alpha -> <<"a">>
      [] kind = S_beta -> <<"b">>
      [] kind = S_rc -> S_rc

\* sub: empty for a final, the suffix and the iteration otherwise.
VersionSub(t) ==
    IF t[4].s = S_final THEN <<>> ELSE KindSuffix(t[4].s) \o ItemStr(t[5])

\* get_complete_version asserts five components and a known kind.
get_version(t) ==
    IF Len(t) # 5 \/ t[4].isint \/ t[4].s \notin KindNames THEN Failed
    ELSE Done(get_main_version(t) \o VersionSub(t))

RELEASE_STATUS_REVERSE(kind) ==
    CASE kind = S_alpha -> "a"
      [] kind = S_beta -> "b"
      [] kind = S_rc -> "c"
      [] kind = S_final -> "f"


(***************************************************************************)
(* Version strings the runs draw from.                                     *)
(***************************************************************************)
V_0_9 == <<"0", ".", "9">>
V_1_7 == <<"1", ".", "7">>
V_1_8 == <<"1", ".", "8">>
V_1_8_1 == <<"1", ".", "8", ".", "1">>
V_1_8_2 == <<"1", ".", "8", ".", "2">>
V_1_8a1 == <<"1", ".", "8", "a", "1">>
V_1_8a2 == <<"1", ".", "8", "a", "2">>
V_1_8b1 == <<"1", ".", "8", "b", "1">>
V_1_8rc1 == <<"1", ".", "8", "r", "c", "1">>
V_1_10 == <<"1", ".", "1", "0">>

(***************************************************************************)
(* Release rows and instances.                                             *)
(***************************************************************************)
\* An in-memory Release: its attributes and the cached_property version_tuple
\* (vt: <<>> while not computed, <<t>> once computed).
Release(version, is_active, date, eol_date, is_lts) ==
    [version |-> version, is_active |-> is_active, date |-> date,
     eol_date |-> eol_date, is_lts |-> is_lts,
     tarball |-> <<>>, wheel |-> <<>>, checksum |-> <<>>, vt |-> <<>>]

\* The instance with the names of its artifact files set (<<>> is a blank
\* FileField).
WithArtifacts(obj, tarball, wheel, checksum) ==
    [obj EXCEPT !.tarball = tarball, !.wheel = wheel, !.checksum = checksum]

\* The row an instance is written as, t being its version_tuple.
RowOf(obj, t) ==
    [version |-> obj.version, is_active |-> obj.is_active, date |-> obj.date,
     eol_date |-> obj.eol_date, is_lts |-> obj.is_lts,
     tarball |-> obj.tarball, wheel |-> obj.wheel, checksum |-> obj.checksum,
     major |-> t[1].n, minor |-> t[2].n, micro |-> t[3].n,
     status |-> RELEASE_STATUS_REVERSE(t[4].s), iteration |-> t[5].n]

\* The instance after a read of self.version_tuple gave vt: the tuple is
\* cached unless the read raised.
Cached(obj, vt) == IF vt.ok THEN [obj EXCEPT !.vt = <<vt.t>>] ELSE obj

\* Reading self.version_tuple: the cached value if there is one.
ReadVersionTuple(obj) ==
    IF obj.vt # <<>> THEN Done(obj.vt[1]) ELSE version_tuple(obj.version)

\* The integer columns take ints only.
IntColumns(t) == t[1].isint /\ t[2].isint /\ t[3].isint /\ t[5].isint

\* super().save(): the row with the instance's primary key is replaced, or the
\* row is inserted.
WriteRow(rows, row) == {r \in rows : r.version # row.version} \cup {row}

\* The EOL cascade of save: the bulk update of the previous micro's final rows.
CascadeMatches_older_micros(row, r) ==
    /\ r.major = row.major
    /\ r.minor = row.minor
    /\ r.micro < row.micro
    /\ r.status = "f"

\* filter(major=self.major, minor=self.minor, micro=self.micro - 1, status="f")
CascadeMatches(row, r) ==
    /\ r.major = row.major
    /\ r.minor = row.minor
    /\ r.micro = row.micro - 1
    /\ r.status = "f"

\* The condition of the cascade without "and self.is_active".
CascadeApplies_ignoring_is_active(row) == row.status = "f" /\ row.micro > 0

CascadeApplies(row) == row.status = "f" /\ row.micro > 0 /\ row.is_active

Cascade(rows, row) ==
    IF CascadeApplies(row)
    THEN {IF CascadeMatches(row, r) THEN [r EXCEPT !.eol_date = row.date] ELSE r
            : r \in rows}
    ELSE rows

(***************************************************************************)
(* Release.save on instance obj with the table holding rows.  The outcome: *)
(* raised (an exception left save), invalidated (cache.delete was          *)
(* reached), the instance and the table afterwards, and the row written    *)
(* (<<>> when none was).                                                   *)
(***************************************************************************)
SaveOutcome(raised, invalidated, obj, rows, row) ==
    [raised |-> raised, invalidated |-> invalidated, obj |-> obj,
     rows |-> rows, row |-> row]

\* save from cache.delete on, the columns being those of row.
SaveRow(obj, rows, row) ==
    SaveOutcome(FALSE, TRUE, obj, Cascade(WriteRow(rows, row), row), <<row>>)

\* save with self.version_tuple evaluating to t.
SaveTuple(obj, rows, t) ==
    IF Len(t) # 5 THEN SaveOutcome(TRUE, FALSE, obj, rows, <<>>)
    ELSE IF ~IntColumns(t) THEN SaveOutcome(TRUE, TRUE, obj, rows, <<>>)
    ELSE SaveRow(obj, rows, RowOf(obj, t))

\* save with reading self.version_tuple giving vt.
SaveRead(obj, rows, vt) ==
    IF ~vt.ok THEN SaveOutcome(TRUE, FALSE, obj, rows, <<>>)
    ELSE SaveTuple(Cached(obj, vt), rows, vt.t)

save(obj, rows) == SaveRead(obj, rows, ReadVersionTuple(obj))

(***************************************************************************)
(* ReleaseManager queries.  rows is the table, at the as-of date, and tb   *)
(* the order in which the database yields rows that the ORDER BY leaves    *)
(* tied (a sequence listing those rows; SQL leaves it unspecified).        *)
(***************************************************************************)
StatusRank(st) == CASE st = "a" -> 1 [] st = "b" -> 2 [] st = "c" -> 3 [] st = "f" -> 4

\* Lexicographic comparison of two int tuples of the same length.
RECURSIVE LexGT(_, _)
LexGT(a, b) ==
    IF a = <<>> THEN FALSE
    ELSE Head(a) > Head(b) \/ (Head(a) = Head(b) /\ LexGT(Tail(a), Tail(b)))

Pos(tb, r) == CHOOSE i \in 1..Len(tb) : tb[i] = r

\* Rows S in descending order of key, tied rows in the order of tb.
RECURSIVE OrderByDesc(_, _, _)
OrderByDesc(S, key, tb) ==
    IF S = {} THEN <<>>
    ELSE LET first == CHOOSE r \in S : \A q \in S \ {r} :
                          \/ LexGT(key[r], key[q])
                          \/ key[r] = key[q] /\ Pos(tb, r) < Pos(tb, q)
         IN  <<first>> \o OrderByDesc(S \ {first}, key, tb)

\* QuerySet.filter / exclude on an ordered result.
RECURSIVE Filter(_, _)
Filter(q, keep) ==
    IF q = <<>> THEN <<>>
    ELSE IF keep[Head(q)] THEN <<Head(q)>> \o Filter(Tail(q), keep)
    ELSE Filter(Tail(q), keep)

\* QuerySet.first() and [1:].first(): <<>> stands for None.
First(q) == IF q = <<>> THEN <<>> ELSE <<q[1]>>
Second(q) == IF Len(q) < 2 THEN <<>> ELSE <<q[2]>>

\* order_by("-major", "-minor", "-micro", "status"): the status ascending.
PublishedKey_ascending_status(r) ==
    <<r.major, r.minor, r.micro, 0 - StatusRank(r.status)>>

PublishedKey(r) == <<r.major, r.minor, r.micro, StatusRank(r.status)>>

\* exclude(eol_date__lt=at): a release is still published on its eol_date.
published_until_eol_date(rows, at, tb) ==
    LET S == {r \in rows :
                /\ r.major >= 1
                /\ r.date # None /\ r.date <= at
                /\ r.is_active
                /\ ~(r.eol_date # None /\ r.eol_date < at)}
    IN  OrderByDesc(S, [r \in S |-> PublishedKey(r)], tb)

published(rows, at, tb) ==
    LET S == {r \in rows :
                /\ r.major >= 1
                /\ r.date # None /\ r.date <= at
                /\ r.is_active
                /\ ~(r.eol_date # None /\ r.eol_date <= at)}
    IN  OrderByDesc(S, [r \in S |-> PublishedKey(r)], tb)

\* supported without its filter on the status.
supported_any_status(rows, at, tb) == published(rows, at, tb)

supported(rows, at, tb) ==
    LET p == published(rows, at, tb)
    IN  Filter(p, [r \in rows |-> r.status = "f"])

\* The loop without excluded_major_minor.add(...).
RECURSIVE UnsupportedLoop_no_add(_, _)
UnsupportedLoop_no_add(cand, excluded) ==
    IF cand = <<>> THEN <<>>
    ELSE LET release == Head(cand)
             mm == <<release.major, release.minor>>
         IN  IF mm \notin excluded
             THEN <<release>> \o UnsupportedLoop_no_add(Tail(cand), excluded)
             ELSE UnsupportedLoop_no_add(Tail(cand), excluded)

\* The loop of unsupported over the candidates cand, excluded being the
\* (major, minor) pairs seen so far.
RECURSIVE UnsupportedLoop(_, _)
UnsupportedLoop(cand, excluded) ==
    IF cand = <<>> THEN <<>>
    ELSE LET release == Head(cand)
             mm == <<release.major, release.minor>>
         IN  IF mm \notin excluded
             THEN <<release>> \o UnsupportedLoop(Tail(cand), excluded \cup {mm})
             ELSE UnsupportedLoop(Tail(cand), excluded)

\* unsupported with excluded_major_minor starting empty.
unsupported_ignoring_supported(rows, at, tb) ==
    LET S == {r \in rows :
                /\ r.major >= 1
                /\ r.eol_date # None /\ r.eol_date <= at
                /\ r.status = "f"}
        cand == OrderByDesc(S, [r \in S |-> <<r.major, r.minor, r.micro>>], tb)
    IN  UnsupportedLoop(cand, {})

unsupported(rows, at, tb) ==
    LET sup == supported(rows, at, tb)
        excluded_major_minor == {<<sup[i].major, sup[i].minor>> : i \in 1..Len(sup)}
        S == {r \in rows :
                /\ r.major >= 1
                /\ r.eol_date # None /\ r.eol_date <= at
                /\ r.status = "f"}
        cand == OrderByDesc(S, [r \in S |-> <<r.major, r.minor, r.micro>>], tb)
    IN  UnsupportedLoop(cand, excluded_major_minor)

current(rows, at, tb) == First(supported(rows, at, tb))

\* previous without the [1:] slice.
previous_unsliced(rows, at, tb) == First(supported(rows, at, tb))

previous(rows, at, tb) == Second(supported(rows, at, tb))

lts(rows, at, tb) ==
    Filter(supported(rows, at, tb), [r \in rows |-> r.is_lts])

current_lts(rows, at, tb) == First(lts(rows, at, tb))

previous_lts(rows, at, tb) == Second(lts(rows, at, tb))

preview(rows, at, tb) ==
    First(Filter(published(rows, at, tb), [r \in rows |-> r.status # "f"]))

\* The rows that share (major, minor, micro) with another row: the only rows an
\* ORDER BY of the manager can leave tied.
Tied(rows) ==
    {r \in rows : \E q \in rows \ {r} :
        q.major = r.major /\ q.minor = r.minor /\ q.micro = r.micro}

\* The orders the database can yield the tied rows in.
ScanOrders(rows) ==
    LET T == Tied(rows)
    IN  {tb \in [1..Cardinality(T) -> T] :
            \A i, j \in 1..Cardinality(T) : i # j => tb[i] # tb[j]}

(***************************************************************************)
(* Results of calls, kept in res.                                          *)
(***************************************************************************)
NoRes == [op |-> "none"]

\* The variables holding Release instances.
Slots == {"release"}

NoObjs == [slot \in Slots |-> <<>>]

\* The processes (request handlers) that run calls step by step.
Procs == {"p1", "p2"}

Idle == [op |-> "idle"]

NoCalls == [p \in Procs |-> Idle]

\* Every ReleaseManager query called with the same as-of date on one table.
ManagerResults(rows, at, tb) ==
    [op |-> "query", at |-> at,
     published |-> published(rows, at, tb),
     supported |-> supported(rows, at, tb),
     unsupported |-> unsupported(rows, at, tb),
     current |-> current(rows, at, tb),
     previous |-> previous(rows, at, tb),
     lts |-> lts(rows, at, tb),
     current_lts |-> current_lts(rows, at, tb),
     previous_lts |-> previous_lts(rows, at, tb),
     preview |-> preview(rows, at, tb)]

\* The stored row of a release saved from a fresh instance.
StoredRow(version, is_active, date, eol_date, is_lts) ==
    RowOf(Release(version, is_active, date, eol_date, is_lts),
          version_tuple(version).t)

(***************************************************************************)
(* SpecQuery: the manager queries on every dataset of up to MaxRows rows.  *)
(***************************************************************************)
QueryVersions == {V_0_9, V_1_7, V_1_8, V_1_8_1, V_1_8a1}

\* The LTS flag the datasets give each version.
QueryLts(version) == version \in {V_0_9, V_1_7, V_1_8_1}

\* The datasets: up to MaxRows of the versions, each active or not, with any
\* date and eol_date; the inactive rows carry date 1, so that is_active is
\* what keeps them out of published.
QueryDataset(versions) ==
    LET stored == [v \in versions |-> StoredRow(v, FALSE, None, None, QueryLts(v))]
    IN  \E keys \in {K \in SUBSET versions : Cardinality(K) <= MaxRows} :
           \E a \in [keys -> BOOLEAN], d \in [keys -> DateOrNone],
              e \in [keys -> DateOrNone] :
              /\ \A v \in keys : a[v] \/ d[v] = 1
              /\ releases = {[stored[v] EXCEPT !.is_active = a[v], !.date = d[v],
                                               !.eol_date = e[v]] : v \in keys}

QueryInit ==
    /\ QueryDataset(QueryVersions)
    /\ cache = <<>>
    /\ today = 1
    /\ objs = NoObjs
    /\ calls = NoCalls
    /\ issues = {}
    /\ links = {}
    /\ res = NoRes

\* published, supported, ... called at date at; tb is the scan order.  What
\* they return depends on the table alone, so QueryNext takes the calls and the
\* deletions from the states that hold no earlier result.
ManagerCalls(at, tb) ==
    /\ res' = ManagerResults(releases, at, tb)
    /\ UNCHANGED <<releases, cache, today, objs, calls, issues, links>>

\* The deletion of a release deleting the cache entry as well.
Delete_invalidating(version) ==
    /\ \E r \in releases : r.version = version
    /\ releases' = {r \in releases : r.version # version}
    /\ links' = {l \in links : l.release # version}
    /\ cache' = <<>>
    /\ res' = NoRes
    /\ UNCHANGED <<today, objs, calls, issues>>

\* Release.objects.filter(version=version).delete(); the rows of the through
\* table that point to the release go with it (on_delete=CASCADE).
Delete(version) ==
    /\ \E r \in releases : r.version = version
    /\ releases' = {r \in releases : r.version # version}
    /\ links' = {l \in links : l.release # version}
    /\ res' = NoRes
    /\ UNCHANGED <<cache, today, objs, calls, issues>>

QueryNext ==
    \/ \E at \in Dates : \E tb \in ScanOrders(releases) :
          res = NoRes /\ ManagerCalls(at, tb)
    \/ \E r \in releases : res = NoRes /\ Delete(r.version)

SpecQuery == QueryInit /\ [][QueryNext]_vars


(***************************************************************************)
(* SpecPreview: the same calls on datasets of pre-releases of one version. *)
(***************************************************************************)
PreviewVersions == {V_1_8a1, V_1_8a2, V_1_8b1, V_1_8}

PreviewInit ==
    /\ QueryDataset(PreviewVersions)
    /\ cache = <<>>
    /\ today = 1
    /\ objs = NoObjs
    /\ calls = NoCalls
    /\ issues = {}
    /\ links = {}
    /\ res = NoRes

SpecPreview == PreviewInit /\ [][QueryNext]_vars

(***************************************************************************)
(* Saving, the current-version cache and the instance operations.          *)
(***************************************************************************)
\* The table, the cache and the instance variables before anything ran.
Init ==
    /\ releases = {}
    /\ cache = <<>>
    /\ today = 1
    /\ objs = NoObjs
    /\ calls = NoCalls
    /\ issues = {}
    /\ links = {}
    /\ res = NoRes

\* What a save with outcome out does to the table and the cache, and what it
\* leaves in res; the table is kept to MaxSaved rows.
Saved(out) ==
    /\ Cardinality(out.rows) <= MaxSaved
    /\ releases' = out.rows
    /\ cache' = IF out.invalidated THEN <<>> ELSE cache
    /\ res' = [op |-> "save", raised |-> out.raised, row |-> out.row]

\* release = Release(version=version); setattr(release, ...); release.save():
\* a new instance, its eol_date unset, saved at once.
SaveNew(version, is_active, date) ==
    /\ Saved(save(Release(version, is_active, date, None, FALSE), releases))
    /\ UNCHANGED <<today, objs, calls, issues, links>>

\* slot = Release(version=version, is_active=is_active): the date defaults to
\* datetime.date.today.
New(slot, version, is_active) ==
    /\ objs' = [objs EXCEPT ![slot] =
                    <<Release(version, is_active, today, None, FALSE)>>]
    /\ res' = NoRes
    /\ UNCHANGED <<releases, cache, today, calls, issues, links>>

\* slot.version = version: the cached version_tuple stays as it is.
SetVersion(slot, version) ==
    /\ objs[slot] # <<>>
    /\ objs' = [objs EXCEPT ![slot] = <<[objs[slot][1] EXCEPT !.version = version]>>]
    /\ res' = NoRes
    /\ UNCHANGED <<releases, cache, today, calls, issues, links>>

\* What a read of self.version_tuple giving vt leaves in res.
TupleRead(vt) == [op |-> "version_tuple", raised |-> ~vt.ok, value |-> vt.t]

\* Reading slot.version_tuple: computed on the first read and then cached.
GetVersionTuple(slot) ==
    /\ objs[slot] # <<>>
    /\ objs' = [objs EXCEPT ![slot] =
                    <<Cached(objs[slot][1], ReadVersionTuple(objs[slot][1]))>>]
    /\ res' = TupleRead(ReadVersionTuple(objs[slot][1]))
    /\ UNCHANGED <<releases, cache, today, calls, issues, links>>

\* get_version with reading self.version_tuple giving vt.
VersionRead(vt) ==
    IF ~vt.ok THEN [op |-> "get_version", raised |-> TRUE, tuple |-> <<>>, value |-> <<>>]
    ELSE [op |-> "get_version", raised |-> ~get_version(vt.t).ok,
          tuple |-> vt.t, value |-> get_version(vt.t).t]

\* get_version(slot.version_tuple), as validate_artifact_name and
\* upload_to_checksum call it.
GetVersion(slot) ==
    /\ objs[slot] # <<>>
    /\ objs' = [objs EXCEPT ![slot] =
                    <<Cached(objs[slot][1], ReadVersionTuple(objs[slot][1]))>>]
    /\ res' = VersionRead(ReadVersionTuple(objs[slot][1]))
    /\ UNCHANGED <<releases, cache, today, calls, issues, links>>

\* slot = Release(version=version, is_active=is_active, date=date)
NewDated(slot, version, is_active, date) ==
    /\ objs' = [objs EXCEPT ![slot] =
                    <<Release(version, is_active, date, None, FALSE)>>]
    /\ res' = NoRes
    /\ UNCHANGED <<releases, cache, today, calls, issues, links>>

\* Release.is_published with datetime.date.today() being at.
is_published_before_today(obj, at) ==
    obj.is_active /\ obj.date # None /\ obj.date < at

is_published(obj, at) ==
    obj.is_active /\ obj.date # None /\ obj.date <= at

\* slot.is_published
IsPublished(slot) ==
    /\ objs[slot] # <<>>
    /\ res' = [op |-> "is_published", slot |-> slot,
               value |-> is_published(objs[slot][1], today)]
    /\ UNCHANGED <<releases, cache, today, objs, calls, issues, links>>

(***************************************************************************)
(* Release.clean and validate_artifact_name.                               *)
(***************************************************************************)
S_jango == <<"j", "a", "n", "g", "o", "-">>
TarGz == <<".", "t", "a", "r", ".", "g", "z">>
WheelSuffix == <<"-", "p", "y", "3", "-", "n", "o", "n", "e", "-", "a", "n", "y",
                 ".", "w", "h", "l">>

\* The parts of a path: what stands between its slashes.
RECURSIVE PathParts(_, _)
PathParts(name, part) ==
    IF name = <<>> THEN <<part>>
    ELSE IF Head(name) = "/" THEN <<part>> \o PathParts(Tail(name), <<>>)
    ELSE PathParts(Tail(name), Append(part, Head(name)))

\* The last part that is neither empty nor ".", <<>> when there is none.
RECURSIVE LastPart(_)
LastPart(parts) ==
    IF parts = <<>> THEN <<>>
    ELSE IF parts[Len(parts)] \in {<<>>, <<".">>}
    THEN LastPart(SubSeq(parts, 1, Len(parts) - 1))
    ELSE parts[Len(parts)]

\* Path(name).name
PathName(name) == LastPart(PathParts(name, <<>>))

\* re.search of ^[Dd]jango-{re.escape(version)}{re.escape(suffix)}$ in name:
\* $ matches at the end and before a newline that ends the string.
RegexMatches(name, version, suffix) ==
    \E d \in {"d", "D"} :
       \/ name = <<d>> \o S_jango \o version \o suffix
       \/ name = <<d>> \o S_jango \o version \o suffix \o <<"\n">>

\* validate_artifact_name passes, self.version_tuple reading as vt.
NameValid(vt, name, suffix) ==
    /\ vt.ok
    /\ get_version(vt.t).ok
    /\ RegexMatches(PathName(name), get_version(vt.t).t, suffix)

\* validate_artifact_name raises something that is no ValidationError.
NameCrashes(vt) == ~vt.ok \/ ~get_version(vt.t).ok

Passed == [raised |-> FALSE, field |-> "none", code |-> "none"]
Invalid(field, code) == [raised |-> TRUE, field |-> field, code |-> code]

\* The last check of clean: the name of the wheel.
CleanWheel(obj, vt) ==
    IF obj.wheel = <<>> THEN Passed
    ELSE IF NameCrashes(vt) THEN Invalid("none", "error")
    ELSE IF NameValid(vt, obj.wheel, WheelSuffix) THEN Passed
    ELSE Invalid("wheel", "invalid_name")

\* The checks of the names, self.version_tuple reading as vt.
CleanNames(obj, vt) ==
    IF obj.tarball = <<>> THEN CleanWheel(obj, vt)
    ELSE IF NameCrashes(vt) THEN Invalid("none", "error")
    ELSE IF NameValid(vt, obj.tarball, TarGz) THEN CleanWheel(obj, vt)
    ELSE Invalid("tarball", "invalid_name")

\* clean asking for the checksum before it asks for the tarball.
clean_checksum_first(obj, at) ==
    IF (obj.tarball # <<>> \/ obj.wheel # <<>>) /\ obj.checksum = <<>>
    THEN Invalid("checksum", "required")
    ELSE IF is_published(obj, at) /\ obj.tarball = <<>>
    THEN Invalid("tarball", "required")
    ELSE CleanNames(obj, ReadVersionTuple(obj))

\* Release.clean with datetime.date.today() being at.
clean(obj, at) ==
    IF is_published(obj, at) /\ obj.tarball = <<>>
    THEN Invalid("tarball", "required")
    ELSE IF (obj.tarball # <<>> \/ obj.wheel # <<>>) /\ obj.checksum = <<>>
    THEN Invalid("checksum", "required")
    ELSE CleanNames(obj, ReadVersionTuple(obj))

\* clean reads self.version_tuple when it comes to check a name.
CleanReadsTuple(obj, at) ==
    /\ ~(is_published(obj, at) /\ obj.tarball = <<>>)
    /\ obj.checksum # <<>>
    /\ obj.tarball # <<>> \/ obj.wheel # <<>>

Cleaned(obj, at) ==
    IF CleanReadsTuple(obj, at) THEN Cached(obj, ReadVersionTuple(obj)) ELSE obj

CleanResult(out) ==
    [op |-> "clean", raised |-> out.raised, field |-> out.field, code |-> out.code]

\* slot.clean()
Clean(slot) ==
    /\ objs[slot] # <<>>
    /\ objs' = [objs EXCEPT ![slot] = <<Cleaned(objs[slot][1], today)>>]
    /\ res' = CleanResult(clean(objs[slot][1], today))
    /\ UNCHANGED <<releases, cache, today, calls, issues, links>>

\* slot = Release(version=..., is_active=..., date=..., tarball=...,
\* wheel=..., checksum=...)
NewArtifacts(slot, version, is_active, date, tarball, wheel, checksum) ==
    /\ objs' = [objs EXCEPT ![slot] =
                    <<WithArtifacts(Release(version, is_active, date, None, FALSE),
                                    tarball, wheel, checksum)>>]
    /\ res' = NoRes
    /\ UNCHANGED <<releases, cache, today, calls, issues, links>>

\* slot.save()
Save(slot) ==
    /\ objs[slot] # <<>>
    /\ Saved(save(objs[slot][1], releases))
    /\ objs' = [objs EXCEPT ![slot] = <<save(objs[slot][1], releases).obj>>]
    /\ UNCHANGED <<today, calls, issues, links>>

\* current_version treating the empty string as a miss ("if not current_version").
current_version_recomputing_empty(entry, rows, at, tb) ==
    IF entry = <<>> \/ entry = << <<>> >>
    THEN LET current_release == current(rows, at, tb)
             value == IF current_release = <<>> THEN <<>>
                      ELSE current_release[1].version
         IN  [value |-> value, entry |-> <<value>>, computed |-> TRUE]
    ELSE [value |-> entry[1], entry |-> entry, computed |-> FALSE]

\* ReleaseManager.current_version with the cache entry being entry: the value
\* returned, the entry afterwards, and whether current() was called.  The
\* empty string is the sequence <<>>.
current_version(entry, rows, at, tb) ==
    IF entry = <<>>
    THEN LET current_release == current(rows, at, tb)
             value == IF current_release = <<>> THEN <<>>
                      ELSE current_release[1].version
         IN  [value |-> value, entry |-> <<value>>, computed |-> TRUE]
    ELSE [value |-> entry[1], entry |-> entry, computed |-> FALSE]

\* Release.objects.current_version(); at is None in current(), which is today.
CurrentVersion(tb) ==
    /\ LET out == current_version(cache, releases, today, tb)
       IN  /\ cache' = out.entry
           /\ res' = [op |-> "current_version", value |-> out.value,
                      computed |-> out.computed]
    /\ UNCHANGED <<releases, today, objs, calls, issues, links>>

\* The entry outlives settings.CACHE_MIDDLEWARE_SECONDS.
Expire ==
    /\ cache # <<>>
    /\ cache' = <<>>
    /\ res' = NoRes
    /\ UNCHANGED <<releases, today, objs, calls, issues, links>>

\* A day passes.
AdvanceToday ==
    /\ today < MaxDate
    /\ today' = today + 1
    /\ res' = NoRes
    /\ UNCHANGED <<releases, cache, objs, calls, issues, links>>

(***************************************************************************)
(* Spec: saves of new instances, with any is_active and date.              *)
(***************************************************************************)
SaveVersions == {V_1_7, V_1_8, V_1_8_1, V_1_8a1}

Next ==
    \/ \E version \in SaveVersions, is_active \in BOOLEAN, date \in DateOrNone :
          SaveNew(version, is_active, date)
    \/ \E r \in releases : Delete(r.version)

Spec == Init /\ [][Next]_vars

(***************************************************************************)
(* SpecInst: one instance variable, assigned, read and saved.              *)
(***************************************************************************)
InstVersions == {V_1_8, V_1_8_1, V_1_8a1}

InstNext ==
    \/ \E slot \in Slots, version \in InstVersions, is_active \in BOOLEAN :
          New(slot, version, is_active)
    \/ \E slot \in Slots, version \in InstVersions : SetVersion(slot, version)
    \/ \E slot \in Slots : GetVersionTuple(slot)
    \/ \E slot \in Slots : Save(slot)

SpecInst == Init /\ [][InstNext]_vars

(***************************************************************************)
(* SpecCache: saves, deletions, the passing of days and the cache expiry   *)
(* between calls of current_version, one at a time.                        *)
(***************************************************************************)
CacheVersions == {V_1_7, V_1_8, V_1_8_1}

CacheNext ==
    \/ \E version \in CacheVersions, is_active \in BOOLEAN, date \in Dates :
          SaveNew(version, is_active, date)
    \/ \E tb \in ScanOrders(releases) : CurrentVersion(tb)
    \/ \E r \in releases : Delete(r.version)
    \/ Expire
    \/ AdvanceToday

SpecCache == Init /\ [][CacheNext]_vars

(***************************************************************************)
(* save and current_version statement by statement, for processes that    *)
(* run at the same time.  calls[p] is the call process p is in and the     *)
(* statement it is at, or the call it has finished.                        *)
(***************************************************************************)
SaveCall(pc, row) == [op |-> "save", pc |-> pc, row |-> row]
SavedCall(row) == [op |-> "saved", row |-> row]
ReadCall(pc, value) == [op |-> "current_version", pc |-> pc, value |-> value]
ReturnedCall(value) == [op |-> "returned", value |-> value]

\* The call of p at its statement pc.
At(p, op, pc) == calls[p].op = op /\ calls[p].pc = pc

\* save going from the computation of the columns to super().save().
SaveBegin_skipping_invalidate(p, row) ==
    /\ calls[p] = Idle
    /\ row # <<>>
    /\ calls' = [calls EXCEPT ![p] = SaveCall("write", row[1])]
    /\ UNCHANGED <<releases, cache, today, objs, res, issues, links>>

\* save on a new instance up to cache.delete: the columns are computed from
\* self.version_tuple; row is the row the instance will be written as.
SaveBegin(p, row) ==
    /\ calls[p] = Idle
    /\ row # <<>>
    /\ calls' = [calls EXCEPT ![p] = SaveCall("invalidate", row[1])]
    /\ UNCHANGED <<releases, cache, today, objs, res, issues, links>>

\* cache.delete(RELEASE_DEFAULT_CACHE_KEY)
SaveInvalidate(p) ==
    /\ At(p, "save", "invalidate")
    /\ cache' = <<>>
    /\ calls' = [calls EXCEPT ![p] = SaveCall("write", calls[p].row)]
    /\ UNCHANGED <<releases, today, objs, res, issues, links>>

\* super().save(); the save is over unless the cascade applies.
SaveWrite(p) ==
    /\ At(p, "save", "write")
    /\ releases' = WriteRow(releases, calls[p].row)
    /\ calls' = [calls EXCEPT ![p] =
                    IF CascadeApplies(calls[p].row)
                    THEN SaveCall("cascade", calls[p].row)
                    ELSE SavedCall(calls[p].row)]
    /\ UNCHANGED <<cache, today, objs, res, issues, links>>

\* The update of the previous micro's eol_date.
SaveCascade(p) ==
    /\ At(p, "save", "cascade")
    /\ releases' = Cascade(releases, calls[p].row)
    /\ calls' = [calls EXCEPT ![p] = SavedCall(calls[p].row)]
    /\ UNCHANGED <<cache, today, objs, res, issues, links>>

\* current_version: cache.get and the test of what it returned.
ReadCache(p) ==
    /\ calls[p] = Idle
    /\ calls' = [calls EXCEPT ![p] =
                    IF cache = <<>> THEN ReadCall("current", <<>>)
                    ELSE ReturnedCall(cache[1])]
    /\ UNCHANGED <<releases, cache, today, objs, res, issues, links>>

\* current_version: self.current() and the version taken from it.
ReadCurrent(p, tb) ==
    /\ At(p, "current_version", "current")
    /\ calls' = [calls EXCEPT ![p] =
                    ReadCall("set", current_version(<<>>, releases, today, tb).value)]
    /\ UNCHANGED <<releases, cache, today, objs, res, issues, links>>

\* current_version: cache.set and the return.
WriteCache(p) ==
    /\ At(p, "current_version", "set")
    /\ cache' = <<calls[p].value>>
    /\ calls' = [calls EXCEPT ![p] = ReturnedCall(calls[p].value)]
    /\ UNCHANGED <<releases, today, objs, res, issues, links>>

(***************************************************************************)
(* SpecRace: two processes, each making one call, on a table that holds    *)
(* 1.8; the saves are of active micro releases of 1.8.                     *)
(***************************************************************************)
RaceBase == {StoredRow(V_1_8, TRUE, 1, None, FALSE)}

RaceVersions == {V_1_8_1, V_1_8_2}

RaceInit ==
    /\ releases = RaceBase
    /\ cache = <<>>
    /\ today = 1
    /\ objs = NoObjs
    /\ calls = NoCalls
    /\ issues = {}
    /\ links = {}
    /\ res = NoRes

RaceNext ==
    \/ \E p \in Procs, version \in RaceVersions, date \in Dates :
          SaveBegin(p, save(Release(version, TRUE, date, None, FALSE), {}).row)
    \/ \E p \in Procs : SaveInvalidate(p)
    \/ \E p \in Procs : SaveWrite(p)
    \/ \E p \in Procs : SaveCascade(p)
    \/ \E p \in Procs : ReadCache(p)
    \/ \E p \in Procs : \E tb \in ScanOrders(releases) : ReadCurrent(p, tb)
    \/ \E p \in Procs : WriteCache(p)

SpecRace == RaceInit /\ [][RaceNext]_vars

(***************************************************************************)
(* Comparison of Release instances.  Release defines __lt__ and __hash__;  *)
(* it defines no __eq__, so instances are equal as models.Model instances  *)
(* are: when their primary keys are.                                       *)
(***************************************************************************)
\* a == b: models.Model.__eq__, the primary keys are equal.
Release_eq(a, b) == a.version = b.version

\* Release.__lt__
Release_lt(a, b) ==
    LexGT(<<b.major, b.minor, b.micro>>, <<a.major, a.minor, a.micro>>)

\* a > b as functools.total_ordering derives it from __lt__:
\* not (a < b) and a != b.
Release_gt(a, b) == ~Release_lt(a, b) /\ ~Release_eq(a, b)

\* hash((self.major, self.minor, self.micro)): the tuple stands for its hash.
Release_hash(a) == <<a.major, a.minor, a.micro>>

\* The elements a Python set built from the instances S keeps: one of every
\* group of instances that have the same hash and are equal.
PySet(S) ==
    {r \in S : r = CHOOSE q \in S : Release_hash(q) = Release_hash(r) /\ Release_eq(q, r)}

(***************************************************************************)
(* Security issues and the releases they affect.                           *)
(***************************************************************************)
\* The SecurityRelease checklists, and the NULL of SecurityIssue.release.
SecurityReleases == {"sr1"}
NoChecklist == "none"

\* The cve_year_number values.
Cves == {"CVE-1", "CVE-2"}

\* issue.releases.all(): the releases the through table links the issue to.
IssueReleases(cve) ==
    {r \in releases : \E l \in links : l.security_issue = cve /\ l.release = r.version}

\* self.securityissue_set.all() of a checklist.
SecurityIssueSet(sr) == {i.cve_year_number : i \in {j \in issues : j.release = sr}}

\* SecurityRelease.affected_releases; tb is the order in which instances that
\* __lt__ does not tell apart come out of the set (sorted keeps that order).
affected_releases(sr, tb) ==
    LET S == PySet(UNION {IssueReleases(cve) : cve \in SecurityIssueSet(sr)})
    IN  OrderByDesc(S, [r \in S |-> <<r.major, r.minor, r.micro>>], tb)

\* Release.feature_version: f"{self.major}.{self.minor}"
feature_version(r) == ToStr(r.major) \o <<".">> \o ToStr(r.minor)

\* order_by("-version"): the rows by descending version string.
RECURSIVE OrderByVersionDesc(_)
OrderByVersionDesc(S) ==
    IF S = {} THEN <<>>
    ELSE LET first == CHOOSE r \in S :
                          \A q \in S \ {r} : StrGT(r.version, q.version)
         IN  <<first>> \o OrderByVersionDesc(S \ {first})

\* The two entries cve_data extends the list by for a release.
CveEntries(release) ==
    << [status |-> "affected",
        version |-> feature_version(release) \o <<".", "0">>,
        lessThan |-> release.version,
        versionType |-> "semver"],
       [status |-> "unaffected",
        version |-> release.version,
        lessThan |-> feature_version(release) \o <<".", "*">>,
        versionType |-> "semver"] >>

RECURSIVE CveLoop(_)
CveLoop(q) == IF q = <<>> THEN <<>> ELSE CveEntries(Head(q)) \o CveLoop(Tail(q))

\* The releases the loop of cve_data runs over.
CveReleases(cve) ==
    OrderByVersionDesc({r \in IssueReleases(cve) : r.status = "f"})

\* affected_unaffected_versions of SecurityIssue.cve_data.
cve_data(cve) == CveLoop(CveReleases(cve))

CVE_TYPE_OTHER == "Other or Unknown"
CVE_TYPE == {"SQL Injection", "Cross Site Scripting (XSS)", CVE_TYPE_OTHER}
OtherTypes == {"", "DoS", "Timing"}

\* The primary key of a new row of the through table: one that no stored row
\* has (the least such).
NextId(rows) ==
    CHOOSE n \in 1..(Cardinality(rows) + 1) :
       /\ \A l \in rows : l.id # n
       /\ \A k \in 1..(n - 1) : \E l \in rows : l.id = k

\* SecurityIssue.objects.create(release=sr, cve_year_number=cve): the
\* cve_year_number is unique; cve_type and other_type take their defaults.
CreateIssue(cve, sr) ==
    /\ \A i \in issues : i.cve_year_number # cve
    /\ issues' = issues \cup {[cve_year_number |-> cve, release |-> sr,
                                cve_type |-> CVE_TYPE_OTHER, other_type |-> "DoS"]}
    /\ res' = NoRes
    /\ UNCHANGED <<releases, cache, today, objs, calls, links>>

\* issue.releases.add(release): a row of the through table with the default
\* commit_hash, unless the pair is linked already.
AddRelease(cve, version) ==
    /\ \E i \in issues : i.cve_year_number = cve
    /\ \E r \in releases : r.version = version
    /\ links' = IF \E l \in links : l.security_issue = cve /\ l.release = version
                THEN links
                ELSE links \cup {[id |-> NextId(links), security_issue |-> cve,
                                  release |-> version, commit_hash |-> <<>>]}
    /\ Cardinality(links') <= MaxLinks
    /\ res' = NoRes
    /\ UNCHANGED <<releases, cache, today, objs, calls, issues>>

\* The unique constraints of the through table with the (security_issue,
\* release) constraint alone.
LinkConflict_pair_only(rows, cve, version, commit_hash) ==
    \E l \in rows : l.security_issue = cve /\ l.release = version

\* The unique constraints of the through table refuse the row: the pair is
\* stored already, or the commit_hash is non-empty and stored already.
LinkConflict(rows, cve, version, commit_hash) ==
    \/ \E l \in rows : l.security_issue = cve /\ l.release = version
    \/ commit_hash # <<>> /\ \E l \in rows : l.commit_hash = commit_hash

\* SecurityIssueReleasesThrough.objects.create(security_issue=cve,
\* release=version, commit_hash=commit_hash): an IntegrityError when a
\* constraint refuses the row.
InsertLink(cve, version, commit_hash) ==
    /\ \E i \in issues : i.cve_year_number = cve
    /\ \E r \in releases : r.version = version
    /\ links' = IF LinkConflict(links, cve, version, commit_hash) THEN links
                ELSE links \cup {[id |-> NextId(links), security_issue |-> cve,
                                  release |-> version, commit_hash |-> commit_hash]}
    /\ Cardinality(links') <= MaxLinks
    /\ res' = [op |-> "insert_link", security_issue |-> cve, release |-> version,
               commit_hash |-> commit_hash,
               raised |-> LinkConflict(links, cve, version, commit_hash)]
    /\ UNCHANGED <<releases, cache, today, objs, calls, issues>>

\* issue.cve_type = cve_type; issue.other_type = other_type
SetType(cve, cve_type, other_type) ==
    /\ \E i \in issues : i.cve_year_number = cve
    /\ issues' = {IF i.cve_year_number = cve
                  THEN [i EXCEPT !.cve_type = cve_type, !.other_type = other_type]
                  ELSE i : i \in issues}
    /\ res' = NoRes
    /\ UNCHANGED <<releases, cache, today, objs, calls, links>>

\* clean_fields with the first check alone.
clean_fields_first_check_only(issue) ==
    [raised |-> issue.cve_type = CVE_TYPE_OTHER /\ issue.other_type = "",
     issue |-> issue]

\* SecurityIssue.clean_fields: whether it raises, and the instance after it.
clean_fields(issue) ==
    [raised |-> \/ issue.cve_type = CVE_TYPE_OTHER /\ issue.other_type = ""
                \/ issue.cve_type # CVE_TYPE_OTHER /\ issue.other_type # "",
     issue |-> issue]

\* issue.clean_fields() on the issue cve
CleanFields(cve) ==
    /\ \E i \in issues : i.cve_year_number = cve
    /\ issues' = {IF i.cve_year_number = cve THEN clean_fields(i).issue ELSE i
                    : i \in issues}
    /\ res' = [op |-> "clean_fields", cve |-> cve,
               raised |-> \E i \in issues :
                             i.cve_year_number = cve /\ clean_fields(i).raised]
    /\ UNCHANGED <<releases, cache, today, objs, calls, links>>

\* a == b, a < b, hash(a), hash(b) for two instances loaded from the table.
Compare(a, b) ==
    /\ res' = [op |-> "compare", a |-> a, b |-> b,
               eq |-> Release_eq(a, b), lt |-> Release_lt(a, b),
               gt |-> Release_gt(a, b), gt_reversed |-> Release_gt(b, a),
               hash_a |-> Release_hash(a), hash_b |-> Release_hash(b)]
    /\ UNCHANGED <<releases, cache, today, objs, calls, issues, links>>

\* checklist.affected_releases
AffectedReleases(sr, tb) ==
    /\ res' = [op |-> "affected_releases", sr |-> sr,
               value |-> affected_releases(sr, tb)]
    /\ UNCHANGED <<releases, cache, today, objs, calls, issues, links>>

\* issue.cve_data
CveData(cve) ==
    /\ \E i \in issues : i.cve_year_number = cve
    /\ res' = [op |-> "cve_data", cve |-> cve, linked |-> IssueReleases(cve),
               versions |-> cve_data(cve)]
    /\ UNCHANGED <<releases, cache, today, objs, calls, issues, links>>

(***************************************************************************)
(* SpecSecurity: releases, issues and links are made, instances compared   *)
(* and the advisory data computed.                                         *)
(***************************************************************************)
SecurityVersions == {V_1_8, V_1_8a1, V_1_8_1, V_1_10}

SecurityNext ==
    \/ \E version \in SecurityVersions : SaveNew(version, FALSE, 1)
    \/ \E cve \in Cves, sr \in SecurityReleases \cup {NoChecklist} :
          CreateIssue(cve, sr)
    \/ \E cve \in Cves, version \in SecurityVersions : AddRelease(cve, version)
    \/ \E a, b \in releases : Compare(a, b)
    \/ \E sr \in SecurityReleases : \E tb \in ScanOrders(releases) :
          AffectedReleases(sr, tb)
    \/ \E cve \in Cves : CveData(cve)

SpecSecurity == Init /\ [][SecurityNext]_vars

(***************************************************************************)
(* SpecParse: an instance of any version string of up to MaxVersionLen     *)
(* characters, beside a stored release and a filled cache; its             *)
(* version_tuple is read, formatted, and the instance saved.               *)
(***************************************************************************)
ParseChars == {"1", ".", "a", "c", "-"}
ParseVersions == UNION {[1..n -> ParseChars] : n \in 1..MaxVersionLen}
ParseBase == {StoredRow(V_1_8, TRUE, 1, None, FALSE)}

ParseInit ==
    /\ releases = ParseBase
    /\ cache = <<V_1_8>>
    /\ today = 1
    /\ \E version \in ParseVersions :
          objs = [slot \in Slots |-> <<Release(version, TRUE, 1, None, FALSE)>>]
    /\ calls = NoCalls
    /\ issues = {}
    /\ links = {}
    /\ res = NoRes

ParseNext ==
    \/ \E slot \in Slots : GetVersionTuple(slot)
    \/ \E slot \in Slots : GetVersion(slot)
    \/ \E slot \in Slots : Save(slot)

SpecParse == ParseInit /\ [][ParseNext]_vars

\* The form of the admin for the instance in slot: is_valid() runs clean, and
\* the instance is saved when it passes.
AdminSave(slot) ==
    /\ objs[slot] # <<>>
    /\ ~clean(objs[slot][1], today).raised
    /\ Saved(save(Cleaned(objs[slot][1], today), releases))
    /\ objs' = [objs EXCEPT ![slot] =
                    <<save(Cleaned(objs[slot][1], today), releases).obj>>]
    /\ UNCHANGED <<today, calls, issues, links>>

(***************************************************************************)
(* SpecClean: instances of any is_active, date and artifacts are cleaned,  *)
(* saved directly and saved through the admin, as the days pass.           *)
(***************************************************************************)
GoodTarball == <<"d">> \o S_jango \o V_1_8 \o TarGz
BadTarball == <<"d">> \o S_jango \o V_1_7 \o TarGz
GoodWheel == <<"D">> \o S_jango \o V_1_8 \o WheelSuffix
ChecksumName == <<"c", ".", "t", "x", "t">>

CleanNext ==
    \/ \E slot \in Slots, is_active \in BOOLEAN, date \in DateOrNone,
          tarball \in {<<>>, GoodTarball, BadTarball}, wheel \in {<<>>, GoodWheel},
          checksum \in {<<>>, ChecksumName} :
          NewArtifacts(slot, V_1_8, is_active, date, tarball, wheel, checksum)
    \/ \E slot \in Slots : Clean(slot)
    \/ \E slot \in Slots : Save(slot)
    \/ \E slot \in Slots : AdminSave(slot)
    \/ AdvanceToday

SpecClean == Init /\ [][CleanNext]_vars

(***************************************************************************)
(* SpecFrame: saves of new instances of the releases of one series, and    *)
(* deletions.                                                              *)
(***************************************************************************)
FrameVersions == {V_1_8, V_1_8_1, V_1_8_2, V_1_8rc1, V_1_7}

FrameNext ==
    \/ \E version \in FrameVersions, is_active \in BOOLEAN, date \in DateOrNone :
          SaveNew(version, is_active, date)
    \/ \E r \in releases : Delete(r.version)

SpecFrame == Init /\ [][FrameNext]_vars

(***************************************************************************)
(* SpecStale: an instance is made and saved, new instances are saved       *)
(* beside it, and the instance is saved again.                             *)
(***************************************************************************)
StaleVersions == {V_1_8, V_1_8_1}

StaleNext ==
    \/ \E slot \in Slots, version \in StaleVersions, is_active \in BOOLEAN :
          New(slot, version, is_active)
    \/ \E slot \in Slots : Save(slot)
    \/ \E version \in StaleVersions, is_active \in BOOLEAN, date \in Dates :
          SaveNew(version, is_active, date)
    \/ AdvanceToday

SpecStale == Init /\ [][StaleNext]_vars

(***************************************************************************)
(* SpecEntry: saves step by step, calls of current_version, deletions, the *)
(* passing of days and the cache expiry, on a table that holds 1.8.        *)
(***************************************************************************)
EntryNext ==
    \/ \E p \in Procs, version \in RaceVersions, date \in Dates :
          SaveBegin(p, save(Release(version, TRUE, date, None, FALSE), {}).row)
    \/ \E p \in Procs : SaveInvalidate(p)
    \/ \E p \in Procs : SaveWrite(p)
    \/ \E p \in Procs : SaveCascade(p)
    \/ \E tb \in ScanOrders(releases) : CurrentVersion(tb)
    \/ \E r \in releases : Delete(r.version)
    \/ Expire
    \/ AdvanceToday

SpecEntry == RaceInit /\ [][EntryNext]_vars

(***************************************************************************)
(* SpecArtifact: an unpublished instance with a checksum and any names of  *)
(* its tarball and wheel is cleaned.                                       *)
(***************************************************************************)
ArtifactVersions == {V_1_8, V_1_8_1}
Folder == <<"r", "e", "l", "e", "a", "s", "e", "s", "/", "1", ".", "8", "/">>
Stems == {<<"d">> \o S_jango, <<"D">> \o S_jango, <<"x", "d">> \o S_jango}
PlainNames ==
    {stem \o version \o suffix :
        stem \in Stems, version \in ArtifactVersions, suffix \in {TarGz, WheelSuffix}}
ArtifactNames ==
    PlainNames \cup {Folder \o name : name \in PlainNames}
               \cup {name \o <<"/">> : name \in PlainNames}
               \cup {name \o <<"\n">> : name \in PlainNames}

ArtifactInit ==
    /\ releases = {}
    /\ cache = <<>>
    /\ today = 1
    /\ \E version \in ArtifactVersions, tarball \in ArtifactNames \cup {<<>>},
          wheel \in ArtifactNames \cup {<<>>} :
          objs = [slot \in Slots |->
                     <<WithArtifacts(Release(version, FALSE, None, None, FALSE),
                                     tarball, wheel, ChecksumName)>>]
    /\ calls = NoCalls
    /\ issues = {}
    /\ links = {}
    /\ res = NoRes

ArtifactNext ==
    \/ \E slot \in Slots : Clean(slot)
    \/ \E slot \in Slots : GetVersionTuple(slot)

SpecArtifact == ArtifactInit /\ [][ArtifactNext]_vars

(***************************************************************************)
(* SpecPublished: instances of any is_active and date, unsaved and saved,  *)
(* asked whether they are published as the days pass.                      *)
(***************************************************************************)
PublishedVersions == {V_1_8, V_1_8_1}

PublishedNext ==
    \/ \E slot \in Slots, version \in PublishedVersions, is_active \in BOOLEAN,
          date \in DateOrNone : NewDated(slot, version, is_active, date)
    \/ \E slot \in Slots : Save(slot)
    \/ \E slot \in Slots : IsPublished(slot)
    \/ AdvanceToday

SpecPublished == Init /\ [][PublishedNext]_vars

(***************************************************************************)
(* SpecIssue: issues are made, their types set and their fields cleaned.   *)
(***************************************************************************)
IssueNext ==
    \/ \E cve \in Cves, sr \in SecurityReleases \cup {NoChecklist} :
          CreateIssue(cve, sr)
    \/ \E cve \in Cves, cve_type \in CVE_TYPE, other_type \in OtherTypes :
          SetType(cve, cve_type, other_type)
    \/ \E cve \in Cves : CleanFields(cve)

SpecIssue == Init /\ [][IssueNext]_vars

(***************************************************************************)
(* SpecLinks: releases and issues are made and rows of the through table   *)
(* inserted, with any commit_hash; releases are deleted.                   *)
(***************************************************************************)
LinkVersions == {V_1_8, V_1_8_1}
CommitHashes == {<<>>, <<"a">>, <<"b">>}

LinksNext ==
    \/ \E version \in LinkVersions : SaveNew(version, FALSE, 1)
    \/ \E cve \in Cves : CreateIssue(cve, NoChecklist)
    \/ \E cve \in Cves, version \in LinkVersions : AddRelease(cve, version)
    \/ \E cve \in Cves, version \in LinkVersions, commit_hash \in CommitHashes :
          InsertLink(cve, version, commit_hash)
    \/ \E r \in releases : Delete(r.version)

SpecLinks == Init /\ [][LinksNext]_vars

(***************************************************************************)
(* Properties of the manager queries.                                      *)
(***************************************************************************)
Elems(q) == {q[i] : i \in 1..Len(q)}
Queried == res.op = "query"
SameSeries(r, q) == r.major = q.major /\ r.minor = q.minor
IsFinal(r) == r.status = "f"
IsLts(r) == r.is_lts

\* The rows a release is published by at date at, stated row by row.
C2_Qualifies(r, at) ==
    /\ r.major >= 1
    /\ r.is_active
    /\ r.date \in Dates /\ r.date <= at
    /\ ~(r.eol_date \in Dates /\ r.eol_date <= at)

\* C2: published(at) holds exactly the stored releases with major >= 1, active,
\* a set date <= at and no eol_date <= at, each once: none undated or dated
\* after at, one dated at is in, one whose eol_date is at is out.
C2_PublishedExactly ==
    Queried =>
        /\ Elems(res.published) = {r \in releases : C2_Qualifies(r, res.at)}
        /\ Len(res.published) = Cardinality(Elems(res.published))
        /\ \A r \in Elems(res.published) : r.date # None /\ r.date <= res.at
        /\ \A r \in releases :
              r.major >= 1 /\ r.is_active /\ r.date = res.at /\ r.eol_date = None
                 => r \in Elems(res.published)
        /\ \A r \in releases : r.eol_date = res.at => r \notin Elems(res.published)

\* A release dated at is returned while one whose eol_date is at is left out.
C2_Witness ==
    /\ Queried
    /\ \E r \in Elems(res.published) : r.date = res.at
    /\ \E r \in releases :
          /\ r.major >= 1 /\ r.is_active /\ r.date # None /\ r.date <= res.at
          /\ r.eol_date = res.at
          /\ r \notin Elems(res.published)

C3_StatusOrder(st) ==
    CASE st = "a" -> 1 [] st = "b" -> 2 [] st = "c" -> 3 [] st = "f" -> 4

\* r comes no later than q in decreasing (major, minor, micro, status) order.
C3_NotBelow(r, q) ==
    \/ r.major > q.major
    \/ r.major = q.major /\ r.minor > q.minor
    \/ r.major = q.major /\ r.minor = q.minor /\ r.micro > q.micro
    \/ /\ r.major = q.major /\ r.minor = q.minor /\ r.micro = q.micro
       /\ C3_StatusOrder(r.status) >= C3_StatusOrder(q.status)

\* C3: consecutive elements of published(at) are in non-increasing order of
\* (major, minor, micro, status), status ordered alpha < beta < rc < final.
C3_PublishedSorted ==
    Queried =>
        \A i \in 1..(Len(res.published) - 1) :
            C3_NotBelow(res.published[i], res.published[i + 1])

\* A final release and a pre-release of the same version are both returned.
C3_Witness ==
    /\ Queried
    /\ Len(res.published) = 2
    /\ res.published[1].micro = res.published[2].micro
    /\ SameSeries(res.published[1], res.published[2])
    /\ res.published[1].status = "f"
    /\ res.published[2].status = "a"

\* C4: unsupported(at) holds no release of a series that has a member in
\* supported(at).
C4_UnsupportedExcludesSupported ==
    Queried =>
        \A u \in Elems(res.unsupported) :
            ~\E r \in Elems(res.supported) : SameSeries(u, r)

\* A series has a supported release and a final release past its end of life.
C4_Witness ==
    /\ Queried
    /\ \E r \in Elems(res.supported) : \E q \in releases :
          /\ SameSeries(q, r)
          /\ q.status = "f" /\ q.major >= 1
          /\ q.eol_date # None /\ q.eol_date <= res.at
          /\ q \notin Elems(res.unsupported)

\* The final releases past their end of life at date at.
C5_Candidates(at) ==
    {r \in releases :
        r.status = "f" /\ r.major >= 1 /\ r.eol_date \in Dates /\ r.eol_date <= at}

\* C5: unsupported(at) holds at most one release per series; of each series
\* without a supported member it holds the candidate with the highest micro;
\* it is in descending (major, minor) order.
C5_UnsupportedLatestMicro ==
    Queried =>
        /\ \A i, j \in 1..Len(res.unsupported) :
              i < j =>
                 \/ res.unsupported[i].major > res.unsupported[j].major
                 \/ /\ res.unsupported[i].major = res.unsupported[j].major
                    /\ res.unsupported[i].minor > res.unsupported[j].minor
        /\ \A c \in C5_Candidates(res.at) :
              (~\E r \in Elems(res.supported) : SameSeries(c, r)) =>
                 \E u \in Elems(res.unsupported) :
                    /\ SameSeries(u, c)
                    /\ u \in C5_Candidates(res.at)
                    /\ \A d \in C5_Candidates(res.at) :
                          SameSeries(d, c) => d.micro <= u.micro

\* Two micro releases of a series are past their end of life; the later one
\* alone is returned.
C5_Witness ==
    /\ Queried
    /\ Len(res.unsupported) = 1
    /\ \E c \in C5_Candidates(res.at) :
          SameSeries(c, res.unsupported[1]) /\ c.micro < res.unsupported[1].micro

\* C6: supported(at) is the final members of published(at) in the same order,
\* and lts(at) the members of supported(at) with the LTS flag, in the same order.
C6_SupportedAndLtsAreFilters ==
    Queried =>
        /\ res.supported = SelectSeq(res.published, IsFinal)
        /\ res.lts = SelectSeq(res.supported, IsLts)

\* A pre-release is published beside a final release that is not LTS.
C6_Witness ==
    /\ Queried
    /\ Len(res.published) = 2
    /\ Len(res.supported) = 1
    /\ res.lts = <<>>

\* The table without its tied rows that are gone, in the order of tb.
C7_Remaining(tb, rows) == SelectSeq(tb, LAMBDA r : r \in Tied(rows))

\* The i-th element of q, None (<<>>) when q has none.
C7_Nth(q, i) == IF i <= Len(q) THEN <<q[i]>> ELSE <<>>

\* C7: current / previous are the first / second element of supported(at),
\* current_lts / previous_lts the first / second of lts(at), None when there is
\* none; deleting the current release makes the previous one current.
C7_CurrentPrevious ==
    /\ [](Queried =>
            /\ res.current = C7_Nth(res.supported, 1)
            /\ res.previous = C7_Nth(res.supported, 2)
            /\ res.current_lts = C7_Nth(res.lts, 1)
            /\ res.previous_lts = C7_Nth(res.lts, 2))
    /\ [][releases' # releases =>
            \A at \in Dates : \A tb \in ScanOrders(releases) :
               LET cur == current(releases, at, tb)
               IN  (cur # <<>> /\ releases' = releases \ {cur[1]}) =>
                      current(releases', at, C7_Remaining(tb, releases'))
                         = previous(releases, at, tb)]_vars

\* Two releases are supported, the first one LTS and the second one not.
C7_Witness ==
    /\ Queried
    /\ Len(res.supported) = 2
    /\ res.current = <<res.supported[1]>>
    /\ res.previous = <<res.supported[2]>>
    /\ Len(res.lts) = 1
    /\ res.previous_lts = <<>>

\* q is a more advanced pre-release than r.
C8_MoreAdvanced(q, r) ==
    \/ q.major > r.major
    \/ q.major = r.major /\ q.minor > r.minor
    \/ q.major = r.major /\ q.minor = r.minor /\ q.micro > r.micro
    \/ /\ q.major = r.major /\ q.minor = r.minor /\ q.micro = r.micro
       /\ \/ C3_StatusOrder(q.status) > C3_StatusOrder(r.status)
          \/ q.status = r.status /\ q.iteration > r.iteration

\* C8: preview(at) is a non-final member of published(at) such that no other
\* non-final member has a greater version, a later status or a higher
\* iteration; it is None when published(at) has no non-final member.
C8_PreviewMostAdvanced ==
    Queried =>
        LET pre == {r \in Elems(res.published) : r.status # "f"}
        IN  /\ (res.preview = <<>>) <=> (pre = {})
            /\ res.preview # <<>> =>
                  /\ res.preview[1] \in pre
                  /\ \A q \in pre : ~C8_MoreAdvanced(q, res.preview[1])

(***************************************************************************)
(* Properties of save and of the current-version cache.                    *)
(***************************************************************************)
\* The last operation was a save that completed.
SaveCompleted == res.op = "save" /\ ~res.raised

\* r is a final release of row's series, one micro below row.
C1_Predecessor(row, r) ==
    /\ r.major = row.major
    /\ r.minor = row.minor
    /\ r.micro = row.micro - 1
    /\ r.status = "f"

\* C1: after the save of a final, active release with micro > 0, every stored
\* final release of its (major, minor) with micro - 1 has the saved release's
\* date as its eol_date (None when that date is None); the save of an inactive
\* release leaves the eol_date of those releases as it was.
C1_SaveSetsEolDate ==
    /\ [](SaveCompleted =>
            LET row == res.row[1]
            IN  (row.status = "f" /\ row.micro > 0 /\ row.is_active) =>
                   \A r \in releases :
                      C1_Predecessor(row, r) => r.eol_date = row.date)
    /\ [][(res'.op = "save" /\ ~res'.raised /\ ~res'.row[1].is_active) =>
             \A r \in releases :
                C1_Predecessor(res'.row[1], r) =>
                   \E q \in releases' :
                      q.version = r.version /\ q.eol_date = r.eol_date]_vars

\* An active final micro release with a date was saved, and its predecessor
\* is stored with that date as eol_date.
C1_Witness ==
    /\ SaveCompleted
    /\ res.row[1].status = "f" /\ res.row[1].micro > 0 /\ res.row[1].is_active
    /\ res.row[1].date # None
    /\ \E r \in releases :
          C1_Predecessor(res.row[1], r) /\ r.eol_date = res.row[1].date

\* (major, minor, micro, status, iteration) parsed from a version string.
C9_Decomposition(version) ==
    LET row == StoredRow(version, FALSE, None, None, FALSE)
    IN  <<row.major, row.minor, row.micro, row.status, row.iteration>>

\* C9: every stored release's (major, minor, micro, status, iteration) is the
\* decomposition parsed from its stored version string.
C9_StoredDecompositionParsed ==
    \A r \in releases :
       <<r.major, r.minor, r.micro, r.status, r.iteration>>
          = C9_Decomposition(r.version)

\* The version string current_version derives from current().
C10_VersionOf(current_release) ==
    IF current_release = <<>> THEN <<>> ELSE current_release[1].version

\* C10: a completed save leaves the cache entry absent; current_version on a
\* miss calls current(), stores and returns its version (the empty string when
\* there is none); on a hit, the empty string included, it returns the stored
\* value and does not call current().
C10_CacheDiscipline ==
    /\ [](SaveCompleted => cache = <<>>)
    /\ [][res'.op = "current_version" =>
             IF cache = <<>>
             THEN /\ res'.computed
                  /\ \E tb \in ScanOrders(releases) :
                        res'.value = C10_VersionOf(current(releases, today, tb))
                  /\ cache' = <<res'.value>>
             ELSE /\ ~res'.computed
                  /\ res'.value = cache[1]
                  /\ cache' = cache]_vars

\* current_version returned a stored empty string although a release is
\* current by now.
C10_Witness ==
    /\ res.op = "current_version"
    /\ ~res.computed
    /\ res.value = <<>>
    /\ cache = << <<>> >>
    /\ \A tb \in ScanOrders(releases) : current(releases, today, tb) # <<>>

(***************************************************************************)
(* Properties of the calls that run at the same time.                      *)
(***************************************************************************)
\* The cache holds a value that is not the version of current().
C11_Stale ==
    /\ cache # <<>>
    /\ \A tb \in ScanOrders(releases) :
          cache[1] # C10_VersionOf(current(releases, today, tb))

\* Process p is in a save, after its cache.delete and before its last write.
C11_Writing(p) ==
    calls[p].op = "save" /\ calls[p].pc \in {"write", "cascade"}

\* C11: the cache entry differs from the version of current() only while some
\* save is between its cache.delete and the end of its writes; with no save
\* under way the entry is absent or the version of current().
C11_StaleOnlyDuringSave ==
    C11_Stale => \E p \in Procs : C11_Writing(p)

\* The table after the save of row first and then the save of row second.
C12_Serial(first, second) ==
    SaveRow(second, SaveRow(first, RaceBase, first).rows, second).rows

\* C12: when two saves that ran at the same time are over, the table is what
\* running one save after the other, in one of the two orders, leaves.
C12_SavesSerializable ==
    (calls["p1"].op = "saved" /\ calls["p2"].op = "saved") =>
        \/ releases = C12_Serial(calls["p1"].row, calls["p2"].row)
        \/ releases = C12_Serial(calls["p2"].row, calls["p1"].row)

\* C13: published(at) never holds two final releases of one (major, minor):
\* at most one release of a series is supported at any date.
C13_OneSupportedPerSeries ==
    \A at \in Dates : \A tb \in ScanOrders(releases) :
       \A r, q \in Elems(published(releases, at, tb)) :
          (IsFinal(r) /\ IsFinal(q) /\ SameSeries(r, q)) => r = q

(***************************************************************************)
(* Properties of the comparison of releases and of the advisory data.      *)
(***************************************************************************)
\* C14: two instances with the same (major, minor, micro) and different
\* statuses are equal and have the same hash.
C14_EqualByVersionNumber ==
    (/\ res.op = "compare"
     /\ <<res.a.major, res.a.minor, res.a.micro>>
           = <<res.b.major, res.b.minor, res.b.micro>>
     /\ res.a.status # res.b.status)
    => (res.eq /\ res.hash_a = res.hash_b)

\* The releases linked to the issues of checklist sr.
C15_Linked(sr) ==
    {r \in releases :
        \E l \in links :
           /\ l.release = r.version
           /\ \E i \in issues :
                 i.cve_year_number = l.security_issue /\ i.release = sr}

\* C15: affected_releases holds releases linked to the checklist's issues,
\* one for every (major, minor, micro) that is linked and no two with the
\* same (major, minor, micro), in descending (major, minor, micro) order.
C15_AffectedDeduplicated ==
    res.op = "affected_releases" =>
       LET q == res.value
       IN  /\ Elems(q) \subseteq C15_Linked(res.sr)
           /\ \A r \in C15_Linked(res.sr) :
                 \E e \in Elems(q) : Release_hash(e) = Release_hash(r)
           /\ \A i, j \in 1..Len(q) :
                 i < j => LexGT(Release_hash(q[i]), Release_hash(q[j]))

\* C16: cve_data lists, for the final releases linked to the issue from the
\* highest (major, minor, micro) down, the 'affected' entry of the release
\* followed by its 'unaffected' entry, and nothing for pre-releases.
C16_CveEntriesDescending ==
    res.op = "cve_data" =>
       LET finals == {r \in res.linked : r.status = "f"}
           q == res.versions
       IN  /\ Len(q) = 2 * Cardinality(finals)
           /\ \A k \in 1..Cardinality(finals) :
                 \E r \in finals :
                    /\ Cardinality({x \in finals :
                          LexGT(Release_hash(x), Release_hash(r))}) = k - 1
                    /\ q[2 * k - 1] = CveEntries(r)[1]
                    /\ q[2 * k] = CveEntries(r)[2]

(***************************************************************************)
(* Properties of the version parser and formatter, and of is_published.    *)
(***************************************************************************)
\* The loose tuple of the version string of the instance in slot.
LooseOf(slot) ==
    get_loose_version_tuple(Remove(Remove(objs[slot][1].version, "-"), "_"))

\* The place of the kind token in the loose tuple l: after the micro when
\* there is one, after the minor otherwise.
KindAt(l) == IF l[3].isint THEN 4 ELSE 3

\* C17: a version_tuple the parser returns has exactly 5 components, its
\* kind is one of alpha, beta, rc, final; a missing micro is 0, a missing
\* kind final, a/b/c are alpha/beta/rc, a missing iteration is 0.
C17_FiveComponents ==
    (res.op = "version_tuple" /\ ~res.raised) =>
       LET t == res.value
           l == LooseOf("release")
       IN  /\ Len(t) = 5
           /\ ~t[4].isint /\ t[4].s \in KindNames
           /\ (Len(l) = 2 \/ ~l[3].isint) => t[3] = IntItem(0)
           /\ (Len(l) = 2 \/ Len(l) < KindAt(l)) => t[4] = StrItem(S_final)
           /\ (Len(l) > 2 /\ Len(l) >= KindAt(l)) =>
                 /\ l[KindAt(l)] = StrItem(<<"a">>) => t[4] = StrItem(S_alpha)
                 /\ l[KindAt(l)] = StrItem(<<"b">>) => t[4] = StrItem(S_beta)
                 /\ l[KindAt(l)] = StrItem(<<"c">>) => t[4] = StrItem(S_rc)
           /\ (Len(l) = 2 \/ Len(l) <= KindAt(l)) => t[5] = IntItem(0)

\* The version string of the instance in slot has a kind token, and it is
\* none of alpha, beta, rc, final, a, b, c.
C18_BadKind(slot) ==
    /\ objs[slot] # <<>>
    /\ objs[slot][1].vt = <<>>
    /\ Len(LooseOf(slot)) > 2
    /\ Len(LooseOf(slot)) >= KindAt(LooseOf(slot))
    /\ \/ LooseOf(slot)[KindAt(LooseOf(slot))].isint
       \/ LooseOf(slot)[KindAt(LooseOf(slot))].s
             \notin KindNames \cup {<<"a">>, <<"b">>, <<"c">>}

\* C18: with a kind token that is none of alpha, beta, rc, final, a, b, c a
\* read of version_tuple raises, and a save raises and leaves the stored
\* releases and the cache entry as they were.
C18_BadKindFails ==
    [][\A slot \in Slots :
          C18_BadKind(slot) =>
             /\ GetVersionTuple(slot) => res'.raised
             /\ Save(slot) =>
                   res'.raised /\ releases' = releases /\ cache' = cache]_vars

C18_Witness ==
    /\ res.op = "save" /\ res.raised
    /\ C18_BadKind("release")
    /\ objs["release"][1].version = <<"1", ".", "1", "a", "c">>
    /\ cache = <<V_1_8>>
    /\ releases = ParseBase

\* C19: the string get_version makes of the version_tuple of an accepted
\* version string parses to that same tuple.
C19_RoundTrip ==
    (res.op = "get_version" /\ res.tuple # <<>>) =>
       ~res.raised /\ version_tuple(res.value) = Done(res.tuple)

\* C20: is_published is true exactly when the instance is active, has a
\* date, and the date is not after today.
C20_IsPublished ==
    res.op = "is_published" =>
       (res.value <=>
           /\ objs[res.slot][1].is_active
           /\ objs[res.slot][1].date \in Dates
           /\ objs[res.slot][1].date <= today)

C20_Witness ==
    /\ res.op = "is_published" /\ res.value
    /\ objs[res.slot][1].date = today
    /\ today = MaxDate
    /\ \E r \in releases : r.version = objs[res.slot][1].version

(***************************************************************************)
(* Properties of clean and of what save stores.                            *)
(***************************************************************************)
\* C21: every stored release that is published has a tarball, and every
\* stored release with a tarball or a wheel has a checksum.
C21_StoredConsistent ==
    \A r \in releases :
       /\ is_published(r, today) => r.tarball # <<>>
       /\ (r.tarball # <<>> \/ r.wheel # <<>>) => r.checksum # <<>>

\* The instance in slot is published and has no tarball.
TarballMissing(slot) ==
    is_published(objs[slot][1], today) /\ objs[slot][1].tarball = <<>>

\* The instance in slot has an artifact and no checksum.
ChecksumMissing(slot) ==
    /\ objs[slot][1].tarball # <<>> \/ objs[slot][1].wheel # <<>>
    /\ objs[slot][1].checksum = <<>>

\* C22 as stated: clean fails with an error on tarball exactly when the
\* release is published and has no tarball; otherwise with an error on
\* checksum when an artifact is present and the checksum is missing; an
\* unpublished release with no artifacts passes.
C22_CleanErrors ==
    res.op = "clean" =>
       /\ (res.raised /\ res.field = "tarball") <=> TarballMissing("release")
       /\ (~TarballMissing("release") /\ ChecksumMissing("release"))
             => (res.raised /\ res.field = "checksum")
       /\ (/\ ~is_published(objs["release"][1], today)
           /\ objs["release"][1].tarball = <<>>
           /\ objs["release"][1].wheel = <<>>) => ~res.raised

\* C22, amended: clean fails with the error that the tarball is required
\* exactly when the release is published and has no tarball; otherwise it
\* fails with an error on checksum exactly when an artifact is present and
\* the checksum is missing; an unpublished release with no artifacts passes.
C22_CleanRequiredErrors ==
    res.op = "clean" =>
       /\ (res.raised /\ res.field = "tarball" /\ res.code = "required")
             <=> TarballMissing("release")
       /\ (res.raised /\ res.field = "checksum")
             <=> (~TarballMissing("release") /\ ChecksumMissing("release"))
       /\ (/\ ~is_published(objs["release"][1], today)
           /\ objs["release"][1].tarball = <<>>
           /\ objs["release"][1].wheel = <<>>) => ~res.raised

C22_Witness ==
    /\ res.op = "clean" /\ res.raised
    /\ res.field = "tarball" /\ res.code = "required"
    /\ objs["release"][1].wheel # <<>>
    /\ objs["release"][1].checksum = <<>>
    /\ objs["release"][1].date = today

\* The base name of name is django- or Django-, the version of the instance
\* in slot as get_version gives it, and suffix.
Named(slot, name, suffix) ==
    \E d \in {"d", "D"} :
       PathName(name) =
          <<d>> \o S_jango
               \o get_version(version_tuple(objs[slot][1].version).t).t \o suffix

\* C23: with a checksum present clean accepts a tarball exactly when its
\* base name is django- or Django-, the version and .tar.gz, and a wheel
\* exactly when its base name is django- or Django-, the version and
\* -py3-none-any.whl; another name fails on the tarball or the wheel field.
C23_ArtifactNames ==
    (res.op = "clean" /\ objs["release"][1].checksum # <<>>
        /\ ~TarballMissing("release")) =>
       LET tarball == objs["release"][1].tarball
           wheel == objs["release"][1].wheel
       IN  IF tarball # <<>> /\ ~Named("release", tarball, TarGz)
           THEN res.raised /\ res.field = "tarball"
           ELSE IF wheel # <<>> /\ ~Named("release", wheel, WheelSuffix)
           THEN res.raised /\ res.field = "wheel"
           ELSE ~res.raised

(***************************************************************************)
(* Properties of the security issues and of the through table.             *)
(***************************************************************************)
\* C24: clean_fields fails exactly when the type is "Other or Unknown" and
\* other_type is empty, or the type is another one and other_type is not
\* empty; it changes no field of the issue.
C24_CleanFields ==
    [][\A cve \in Cves :
          CleanFields(cve) =>
             /\ issues' = issues
             /\ \A i \in issues :
                   i.cve_year_number = cve =>
                      (res'.raised <=>
                          \/ i.cve_type = CVE_TYPE_OTHER /\ i.other_type = ""
                          \/ i.cve_type # CVE_TYPE_OTHER /\ i.other_type # "")]_vars

C24_Witness ==
    /\ res.op = "clean_fields" /\ res.raised
    /\ \E i \in issues :
          /\ i.cve_year_number = res.cve
          /\ i.cve_type = "SQL Injection"
          /\ i.other_type = "Timing"

\* No two rows of the through table have the same (issue, release) pair or
\* the same non-empty commit_hash.
LinksUnique ==
    \A l1, l2 \in links :
       l1.id # l2.id =>
          /\ <<l1.security_issue, l1.release>> # <<l2.security_issue, l2.release>>
          /\ l1.commit_hash # <<>> => l1.commit_hash # l2.commit_hash

\* C25: the stored links never share a pair or a non-empty commit_hash; an
\* insertion is refused exactly when it would make them do so, and a refused
\* insertion leaves the stored links as they were.
C25_LinksUnique ==
    /\ []LinksUnique
    /\ [][\A cve \in Cves, version \in LinkVersions, commit_hash \in CommitHashes :
             InsertLink(cve, version, commit_hash) =>
                /\ res'.raised <=>
                      \E l \in links :
                         \/ <<l.security_issue, l.release>> = <<cve, version>>
                         \/ commit_hash # <<>> /\ l.commit_hash = commit_hash
                /\ res'.raised => links' = links
                /\ ~res'.raised => Cardinality(links') = Cardinality(links) + 1]_vars

C25_Witness ==
    /\ res.op = "insert_link" /\ res.raised
    /\ res.commit_hash # <<>>
    /\ \A l \in links : <<l.security_issue, l.release>> # <<res.security_issue, res.release>>
    /\ Cardinality({l \in links : l.commit_hash = <<>>}) >= 2

(***************************************************************************)
(* Properties of the steps of save and of the comparison operators.        *)
(***************************************************************************)
\* Process p takes a step of its save from statement pc.
SaveStep(p, pc) == At(p, "save", pc) /\ calls'[p] # calls[p]

\* C26: in every save the columns are computed first, then the cache entry is
\* deleted, then the row is written, and only then the cascade updates the
\* predecessor.
C26_SaveStepOrder ==
    [][\A p \in Procs :
          /\ (calls[p] = Idle /\ calls'[p].op = "save") =>
                /\ calls'[p].pc = "invalidate"
                /\ calls'[p].row.major \in Nat
                /\ releases' = releases /\ cache' = cache
          /\ SaveStep(p, "invalidate") =>
                /\ cache' = <<>> /\ releases' = releases
                /\ calls'[p] = SaveCall("write", calls[p].row)
          /\ SaveStep(p, "write") =>
                /\ releases' = WriteRow(releases, calls[p].row)
                /\ cache' = cache
                /\ calls'[p] \in {SaveCall("cascade", calls[p].row),
                                  SavedCall(calls[p].row)}
          /\ SaveStep(p, "cascade") =>
                /\ \A r \in releases' :
                      r \notin releases =>
                         /\ r.micro = calls[p].row.micro - 1
                         /\ r.eol_date = calls[p].row.date
                /\ cache' = cache
                /\ calls'[p] = SavedCall(calls[p].row)
          /\ (calls[p].op # "saved" /\ calls'[p].op = "saved") =>
                calls[p].op = "save" /\ calls[p].pc \in {"write", "cascade"}]_vars

C26_Witness ==
    \E p \in Procs :
       /\ calls[p].op = "saved"
       /\ calls[p].row.version = V_1_8_1
       /\ cache = <<>>
       /\ calls[p].row \in releases
       /\ \E r \in releases : r.version = V_1_8 /\ r.eol_date = calls[p].row.date

\* C27: for two stored releases exactly one of a < b, a == b, a > b holds,
\* and a > b and b > a never hold together.
C27_TotalOrdering ==
    res.op = "compare" =>
       /\ Cardinality({x \in {"lt", "eq", "gt"} : res[x]}) = 1
       /\ ~(res.gt /\ res.gt_reversed)

(***************************************************************************)
(* Properties of what a save and the other operations leave alone.         *)
(***************************************************************************)
\* The cascade of a save of row saved reaches the stored row r.
Reached(saved, r) ==
    /\ saved.status = "f" /\ saved.micro > 0 /\ saved.is_active
    /\ r.status = "f"
    /\ r.major = saved.major /\ r.minor = saved.minor
    /\ r.micro = saved.micro - 1

\* C28: a save changes no stored release other than the saved one and the
\* final releases of its series with micro - 1, and of those the eol_date
\* only; the save of a pre-release, of a micro 0 or of an inactive release
\* changes no other release.
C28_SaveFrame ==
    [][(res'.op = "save" /\ ~res'.raised) =>
          /\ {r.version : r \in releases'}
                = {r.version : r \in releases} \cup {res'.row[1].version}
          /\ \A r \in releases :
                r.version # res'.row[1].version =>
                   \/ r \in releases'
                   \/ /\ Reached(res'.row[1], r)
                      /\ \E eol_date \in DateOrNone :
                            [r EXCEPT !.eol_date = eol_date] \in releases']_vars

C28_Witness ==
    /\ res.op = "save" /\ ~res.raised
    /\ res.row[1].version = V_1_8_2
    /\ res.row[1].is_active /\ res.row[1].date \in Dates
    /\ \E r \in releases : r.version = V_1_8 /\ r.eol_date = None

\* C29: the save of an instance that was saved before the cascade set the
\* stored eol_date of its row, and whose eol_date was not assigned, leaves
\* the stored eol_date as the cascade set it.
C29_CascadeNotLost ==
    [][\A slot \in Slots :
          (objs[slot] # <<>> /\ Save(slot)) =>
             \A r \in releases :
                (/\ r.version = objs[slot][1].version
                 /\ objs[slot][1].vt # <<>>
                 /\ objs[slot][1].eol_date = None
                 /\ r.eol_date # None)
                => \E q \in releases' :
                      q.version = r.version /\ q.eol_date = r.eol_date]_vars

\* C30: a stored cache entry is returned as it is by current_version, and
\* stays as it is through deletions of releases, the cascade's update and
\* the advance of today; only cache.delete of a save and the expiry remove
\* it.
C30_EntryFrame ==
    [][/\ \A r \in releases : Delete(r.version) => cache' = cache
       /\ AdvanceToday => cache' = cache
       /\ \A p \in Procs : SaveCascade(p) => cache' = cache
       /\ \A p \in Procs : SaveWrite(p) => cache' = cache
       /\ \A tb \in ScanOrders(releases) :
             (cache # <<>> /\ CurrentVersion(tb)) =>
                cache' = cache /\ res'.value = cache[1] /\ ~res'.computed
       /\ (cache # <<>> /\ cache' # cache) =>
             (Expire \/ \E p \in Procs : SaveInvalidate(p))]_vars

C30_Witness ==
    /\ res.op = "current_version" /\ ~res.computed
    /\ res.value = V_1_8
    /\ cache = <<V_1_8>>
    /\ today = MaxDate
    /\ \A r \in releases : r.version # V_1_8
    /\ \E p \in Procs : calls[p].op = "saved"

====
